---------------------------- MODULE Spec2Model ----------------------------
(***************************************************************************)
(* Model of src/source/pio_irq.cpp: the static class                       *)
(* pio_irq<H, interrupt_number> (handler registry, dispatch trampoline,    *)
(* wiring) and the index arithmetic it uses.                               *)
(*                                                                         *)
(* State: the template parameter interrupt_number, the static table        *)
(* handlers_, the PIO blocks' flag registers (pio->irq), the interrupt     *)
(* enable registers and vector state written by register_interrupt, and    *)
(* whether an assert() has aborted the program.  `last` records the most   *)
(* recent call and what it did, and `latest` the handler given by the most *)
(* recent bind on each slot (nullptr after an unbind, or when never bound), *)
(* so that properties can speak about them.  `args` and `result` hold the  *)
(* arguments and the return value of a call of one of the free functions;  *)
(* `tr` and `mu` hold the position and the locals of each block's          *)
(* trampoline and of a register_handler call when they are taken           *)
(* statement by statement.                                                 *)
(*                                                                         *)
(* assert(c) is modelled as written in the source: when c is false the     *)
(* program aborts (fatal), and nothing runs after that.                    *)
(***************************************************************************)
EXTENDS Integers, Sequences, FiniteSets

VARIABLES interrupt_number, handlers_, irq, inte, shared, nvic, fatal, last,
          latest, args, result, tr, mu

vars == <<interrupt_number, handlers_, irq, inte, shared, nvic, fatal, last,
          latest, args, result, tr, mu>>

---------------------------------------------------------------------------
(* Platform constants and model bounds *)

\* number of PIO blocks (RP2040: 2)
NUM_PIOS == 2

\* first PIO vector number at the interrupt controller
PIO0_IRQ_0 == 7

\* pio_interrupt_source value of the source of flag 0
pis_interrupt0 == 8

\* bound slots plus raised flags, over all blocks
MaxLoad == 2

\* how many of the flags 4..7 state machines raise
MaxOther == 1

\* largest word given to the index arithmetic on its own
MaxWord == 31

\* bound slots plus raised flags at a register_interrupt call that follows
\* binds and fires
MaxWireLoad == 1

\* largest flag word a block holds when the trampolines run step by step
MaxStepWord == 4

\* executions of one block's trampoline, step by step, in one behaviour
MaxRuns == 1

\* largest flag word a block holds when its vector keeps firing
MaxStormWord == 15

\* largest irq_channel value passed to register_interrupt
MaxChannel == 2

\* register_interrupt calls made in one behaviour
MaxWire == 2

PIOs == 0 .. (NUM_PIOS - 1)
SMs == 0 .. 3
Slots == 0 .. (NUM_PIOS * 4 - 1)
\* the flag register has 8 flags; flags 4..7 are raised by state machines
\* too but belong to no relative interrupt
Flags == 0 .. 7
OtherFlags == 4 .. (3 + MaxOther)
Channels == 0 .. MaxChannel
Vectors == PIO0_IRQ_0 .. (PIO0_IRQ_0 + 2 * NUM_PIOS - 1)

NULL == "nullptr"
Handlers == {"A", "B"}

---------------------------------------------------------------------------
(* Bit arithmetic on unsigned words *)

RECURSIVE BitAnd(_, _)
BitAnd(a, b) ==
    IF a = 0 \/ b = 0 THEN 0
    ELSE (a % 2) * (b % 2) + 2 * BitAnd(a \div 2, b \div 2)

RECURSIVE BitOr(_, _)
BitOr(a, b) ==
    IF a = 0 THEN b
    ELSE IF b = 0 THEN a
    ELSE (IF a % 2 = 1 \/ b % 2 = 1 THEN 1 ELSE 0) + 2 * BitOr(a \div 2, b \div 2)

Shl1(i) == 2 ^ i

\* w & (1 << i) is non-zero
BitSet(w, i) == (w \div Shl1(i)) % 2 = 1

\* the flags raised in a word, as a set
FlagsOf(w) == {f \in Flags : BitSet(w, f)}

---------------------------------------------------------------------------
(* Index arithmetic *)

\* the for loop of sm_from_interrupt, from counter value i
RECURSIVE sm_loop(_, _)
sm_loop(irq_val, i) ==
    IF i < 4
    THEN IF BitAnd(irq_val, Shl1(i)) # 0 THEN i ELSE sm_loop(irq_val, i + 1)
    ELSE i

\* sm_from_interrupt scanning from bit 3 down: the highest raised bit
RECURSIVE sm_loop_down(_, _)
sm_loop_down(irq_val, i) ==
    IF i >= 0
    THEN IF BitAnd(irq_val, Shl1(i)) # 0 THEN i ELSE sm_loop_down(irq_val, i - 1)
    ELSE 4

sm_from_interrupt_highest(irq_val, ir) == sm_loop_down(irq_val, 3)

\* sm_from_interrupt taking the interrupt number off the bit found
sm_from_interrupt_offset(irq_val, ir) == ((sm_loop(irq_val, 0) + 4) - (ir % 4)) % 4

\* value of i after the loop; the parameter ir is not used by the code
sm_from_interrupt(irq_val, ir) == sm_loop(irq_val, 0)

\* assert(i != 4) of sm_from_interrupt
sm_assert_ok(i) == i # 4

\* w & 0xfffffffc on a 32-bit word: bits 2..31 kept, bits 0 and 1 zero
MaskHigh(w) == (w \div 4) * 4

\* relative_interrupt without the wrap to two bits
relative_interrupt_nomod(ir, sm) == ir + sm

relative_interrupt(ir, sm) ==
    LET r1 == BitAnd(ir, 3)
        r2 == r1 + sm
        r3 == r2 % 4
    IN  BitOr(r3, MaskHigh(ir))

\* index_for striding by the number of blocks instead of by 4
index_for_stride(pio, sm) == pio * NUM_PIOS + sm

\* index_for leaving the block out: all blocks share the slots 0..3
index_for_sm(pio, sm) == sm

index_for(pio, sm) == pio * 4 + sm

\* interrupt_source dropping the flag index
interrupt_source_base(is, ir) == is

interrupt_source(is, ir) == is + ir

---------------------------------------------------------------------------
(* The record of the most recent call *)

NoCall ==
    [op |-> "none", pio |-> 0, sm |-> 0, handler |-> NULL, ret |-> FALSE,
     word |-> 0, resolved |-> FALSE, cleared |-> <<>>, invoked |-> <<>>,
     chan |-> 0, en |-> FALSE]

\* the arguments and the result of a call of one of the free functions
NoArgs == [a |-> 0, b |-> 0]

NoResult == [op |-> "none", returned |-> FALSE, val |-> 0]

\* one execution of interrupt_handler(pio) taken statement by statement:
\* pc is the position in the body (0: not running), word the flag register
\* at entry, sm, ir and handler the locals, log what it has done so far,
\* during where a register_handler call stood when it was entered
IdleContext ==
    [pc |-> 0, runs |-> 0, word |-> 0, sm |-> 0, ir |-> 0, handler |-> NULL,
     log |-> <<>>, during |-> "none"]

\* one call of register_handler taken statement by statement: pc is
\* "none" before the call, "read" after line 104, "done" after line 106
NoMutator ==
    [pc |-> "none", pio |-> 0, sm |-> 0, handler |-> NULL, set |-> FALSE,
     old |-> NULL, ret |-> FALSE]

Init ==
    /\ interrupt_number \in 0 .. 3
    /\ handlers_ = [i \in Slots |-> NULL]
    /\ irq = [p \in PIOs |-> 0]
    /\ inte = [p \in PIOs |-> [c \in 0 .. 1 |-> {}]]
    /\ shared = [v \in Vectors |-> <<>>]
    /\ nvic = {}
    /\ fatal = FALSE
    /\ last = NoCall
    /\ latest = [i \in Slots |-> NULL]
    /\ args = NoArgs
    /\ result = NoResult
    /\ tr = [p \in PIOs |-> IdleContext]
    /\ mu = NoMutator

Bound == {i \in Slots : handlers_[i] # NULL}

Raised == {pf \in PIOs \X Flags : BitSet(irq[pf[1]], pf[2])}

Load == Cardinality(Bound) + Cardinality(Raised)

hw == <<inte, shared, nvic>>

aux == <<args, result, tr, mu>>

---------------------------------------------------------------------------
(* Hardware: state machines raising flags *)

\* state machine sm of block pio executes "irq <interrupt_number> rel":
\* the flag raised is the relative one
Fire(pio, sm) ==
    LET f == relative_interrupt(interrupt_number, sm)
    IN  /\ ~fatal
        /\ ~BitSet(irq[pio], f)
        /\ Load < MaxLoad
        /\ irq' = [irq EXCEPT ![pio] = @ + Shl1(f)]
        /\ last' = [NoCall EXCEPT !.op = "fire", !.pio = pio, !.sm = sm]
        /\ UNCHANGED <<interrupt_number, handlers_, fatal, hw, latest, aux>>

\* a state machine of block pio raises one of the flags 4..7
RaiseOther(pio, f) ==
    /\ ~fatal
    /\ ~BitSet(irq[pio], f)
    /\ Load < MaxLoad
    /\ irq' = [irq EXCEPT ![pio] = @ + Shl1(f)]
    /\ last' = [NoCall EXCEPT !.op = "raise", !.pio = pio]
    /\ UNCHANGED <<interrupt_number, handlers_, fatal, hw, latest, aux>>

---------------------------------------------------------------------------
(* Handler registry *)

\* register_handler that leaves the slot alone when asked to clear it
stored_value_keep(handler, set) == handler

\* the value register_handler stores in the slot
stored_value(handler, set) == IF set THEN handler ELSE NULL

\* register_handler returning "the slot was empty" for unbind too
returned_value_old(old, set) == old = NULL

\* the value register_handler returns
returned_value(old, set) == IF set THEN old = NULL ELSE TRUE

register_handler(pio, sm, handler, set) ==
    LET idx == index_for(pio, sm)
        old == handlers_[idx]
    IN  /\ ~fatal
        /\ set => (old # NULL \/ Load < MaxLoad)
        /\ handlers_' = [handlers_ EXCEPT ![idx] = stored_value(handler, set)]
        /\ last' = [NoCall EXCEPT !.op = IF set THEN "bind" ELSE "unbind",
                                  !.pio = pio, !.sm = sm,
                                  !.handler = IF set THEN handler ELSE NULL,
                                  !.ret = returned_value(old, set)]
        /\ latest' = [latest EXCEPT ![pio * 4 + sm] = IF set THEN handler ELSE NULL]
        /\ UNCHANGED <<interrupt_number, irq, fatal, hw, aux>>

---------------------------------------------------------------------------
(* Dispatch trampoline *)

\* pio_interrupt_clear(pio, ir): writes 1 << ir to the flag register, which
\* clears that flag and no other
pio_interrupt_clear(w, ir) == IF BitSet(w, ir) THEN w - Shl1(ir) ELSE w

\* the flag register after the clears of a sequence of flags
RECURSIVE ApplyClears(_, _)
ApplyClears(w, irs) ==
    IF irs = <<>> THEN w
    ELSE ApplyClears(pio_interrupt_clear(w, Head(irs)), Tail(irs))

\* interrupt_handler without its early return
no_sm_info_never(w) == FALSE

\* the early return of interrupt_handler
no_sm_info(w) == w = 0

\* interrupt_handler clearing the flag only when a handler is bound
clear_flags_if_bound(ir, handler) == IF handler # NULL THEN <<ir>> ELSE <<>>

\* the flags interrupt_handler clears, in order: one clear, made whatever
\* the slot holds
clear_flags(ir, handler) == <<ir>>

\* interrupt_handler without the test for nullptr
invocations_always(idx, handler) == <<[slot |-> idx, handler |-> handler]>>

\* the invocations interrupt_handler makes, given the slot content
invocations(idx, handler) ==
    IF handler # NULL THEN <<[slot |-> idx, handler |-> handler]>> ELSE <<>>

\* interrupt_handler(pio), run to completion; pio->irq is read as w
interrupt_handler(pio) ==
    LET w == irq[pio]
        sm == sm_from_interrupt(w, interrupt_number)
        ir == relative_interrupt(interrupt_number, sm)
        idx == index_for(pio, sm)
        call == [NoCall EXCEPT !.op = "dispatch", !.pio = pio, !.word = w]
        clears == clear_flags(ir, handlers_[idx])
    IN  /\ ~fatal
        /\ IF no_sm_info(w)
           THEN /\ last' = call
                /\ UNCHANGED <<irq, fatal>>
           ELSE IF ~sm_assert_ok(sm)
           THEN /\ fatal' = TRUE
                /\ last' = call
                /\ UNCHANGED irq
           ELSE /\ irq' = [irq EXCEPT ![pio] = ApplyClears(@, clears)]
                /\ last' = [call EXCEPT !.resolved = TRUE, !.sm = sm,
                                        !.cleared = clears,
                                        !.invoked = invocations(idx, handlers_[idx])]
                /\ UNCHANGED fatal
        /\ UNCHANGED <<interrupt_number, handlers_, hw, latest, aux>>

---------------------------------------------------------------------------
(* Wiring *)

\* the channel check off by one
channel_ok_le(irq_channel) == irq_channel <= 2

\* assert(irq_channel < 2) of register_interrupt
channel_ok(irq_channel) == irq_channel < 2

\* pio_set_irq0_source_enabled / pio_set_irq1_source_enabled, through their
\* wrappers: sets or clears the source's bit in the line's enable register
pio_set_irqn_source_enabled(enabled_sources, source, enabled) ==
    IF enabled THEN enabled_sources \cup {source} ELSE enabled_sources \ {source}

\* register_interrupt passing its parameter enable on to the source enable
source_enabled_arg_enable(enable) == enable

\* the third argument register_interrupt gives the source enable: the
\* literal true, whatever its parameter enable is
source_enabled_arg(enable) == TRUE

\* irq_add_shared_handler: every call adds the handler to the vector's
\* chain of shared handlers; register_interrupt calls it unconditionally
irq_add_shared_handler(chain, handler) == Append(chain, handler)

RECURSIVE SumLen(_)
SumLen(S) ==
    IF S = {} THEN 0
    ELSE LET v == CHOOSE x \in S : TRUE
         IN  Len(shared[v]) + SumLen(S \ {v})

\* handlers installed on the vectors so far
Installed == SumLen(Vectors)

register_interrupt(irq_channel, pio, sm, enable) ==
    LET irq_num == PIO0_IRQ_0 + 2 * pio + irq_channel
        source == interrupt_source(pis_interrupt0,
                                   relative_interrupt(interrupt_number, sm))
        call == [NoCall EXCEPT !.op = "wire", !.pio = pio, !.sm = sm,
                               !.chan = irq_channel, !.en = enable]
    IN  /\ ~fatal
        /\ Installed < MaxWire
        /\ last' = call
        /\ IF ~channel_ok(irq_channel)
           THEN /\ fatal' = TRUE
                /\ UNCHANGED hw
           ELSE /\ inte' = [inte EXCEPT ![pio][irq_channel] =
                              pio_set_irqn_source_enabled(@, source,
                                                          source_enabled_arg(enable))]
                /\ shared' = [shared EXCEPT ![irq_num] =
                                irq_add_shared_handler(@, pio)]
                /\ nvic' = IF enable THEN nvic \cup {irq_num} ELSE nvic
                /\ UNCHANGED fatal
        /\ UNCHANGED <<interrupt_number, handlers_, irq, latest, aux>>

---------------------------------------------------------------------------
(* Specifications *)

Next ==
    \/ \E p \in PIOs, s \in SMs : Fire(p, s)
    \/ \E p \in PIOs, f \in OtherFlags : RaiseOther(p, f)
    \/ \E p \in PIOs, s \in SMs, h \in Handlers : register_handler(p, s, h, TRUE)
    \/ \E p \in PIOs, s \in SMs : register_handler(p, s, "A", FALSE)
    \/ \E p \in PIOs : interrupt_handler(p)

Spec == Init /\ [][Next]_vars

NextWire ==
    \E c \in Channels, p \in PIOs, s \in SMs, e \in BOOLEAN :
        register_interrupt(c, p, s, e)

SpecWire == Init /\ [][NextWire]_vars

\* Registry, hardware and dispatch, and then a register_interrupt call; one
\* handler is enough here
Unwired == last.op # "wire"

NextAll ==
    \/ Unwired /\ \E p \in PIOs, s \in SMs : Fire(p, s)
    \/ Unwired /\ \E p \in PIOs, f \in OtherFlags : RaiseOther(p, f)
    \/ Unwired /\ \E p \in PIOs, s \in SMs : register_handler(p, s, "B", TRUE)
    \/ Unwired /\ \E p \in PIOs, s \in SMs : register_handler(p, s, "B", FALSE)
    \/ Unwired /\ \E p \in PIOs : interrupt_handler(p)
    \/ Unwired /\ Load <= MaxWireLoad /\ NextWire

SpecAll == Init /\ [][NextAll]_vars

---------------------------------------------------------------------------
(* The trampoline statement by statement *)

\* interrupt_handler reading the slot before it clears the flag
body_lookup_first == <<"check", "assert", "resolve", "lookup", "clear", "invoke">>

\* the statements of interrupt_handler in program order: lines 112-114,
\* 115, 116-117, 118, 119 and 120-122
body == <<"check", "assert", "resolve", "clear", "lookup", "invoke">>

at(p, stmt) == tr[p].pc > 0 /\ body[tr[p].pc] = stmt

\* on to the next statement; the function returns after the last one
advance(c) == [c EXCEPT !.pc = IF @ = Len(body) THEN 0 ELSE @ + 1]

logged(c, ev, n, h) == [c EXCEPT !.log = Append(@, [ev |-> ev, n |-> n, h |-> h])]

\* the vector of block p (either line) calls interrupt_handler_PIOp
T_enter(p) ==
    /\ ~fatal
    /\ tr[p].pc = 0
    /\ tr[p].runs < MaxRuns
    /\ tr' = [tr EXCEPT ![p] = [IdleContext EXCEPT !.pc = 1,
                                                   !.runs = tr[p].runs + 1,
                                                   !.word = irq[p],
                                                   !.during = mu.pc]]
    /\ UNCHANGED <<interrupt_number, handlers_, irq, hw, fatal, last, latest,
                   args, result, mu>>

\* if (pio->irq == 0U) return;
T_check(p) ==
    /\ ~fatal
    /\ at(p, "check")
    /\ tr' = [tr EXCEPT ![p] = IF no_sm_info(irq[p])
                               THEN [@ EXCEPT !.pc = 0]
                               ELSE advance(@)]
    /\ UNCHANGED <<interrupt_number, handlers_, irq, hw, fatal, last, latest,
                   args, result, mu>>

\* assert(pio->irq);
T_assert(p) ==
    /\ ~fatal
    /\ at(p, "assert")
    /\ IF irq[p] = 0
       THEN fatal' = TRUE /\ UNCHANGED tr
       ELSE tr' = [tr EXCEPT ![p] = advance(@)] /\ UNCHANGED fatal
    /\ UNCHANGED <<interrupt_number, handlers_, irq, hw, last, latest,
                   args, result, mu>>

\* sm = sm_from_interrupt(pio->irq, interrupt_number);
\* ir = relative_interrupt(interrupt_number, sm);
T_resolve(p) ==
    LET sm == sm_from_interrupt(irq[p], interrupt_number)
    IN  /\ ~fatal
        /\ at(p, "resolve")
        /\ IF ~sm_assert_ok(sm)
           THEN fatal' = TRUE /\ UNCHANGED tr
           ELSE /\ tr' = [tr EXCEPT ![p] =
                            advance([@ EXCEPT !.sm = sm,
                                              !.ir = relative_interrupt(
                                                         interrupt_number, sm)])]
                /\ UNCHANGED fatal
        /\ UNCHANGED <<interrupt_number, handlers_, irq, hw, last, latest,
                       args, result, mu>>

\* _pio_interrupt_clear(pio, ir);
T_clear(p) ==
    /\ ~fatal
    /\ at(p, "clear")
    /\ irq' = [irq EXCEPT ![p] = pio_interrupt_clear(@, tr[p].ir)]
    /\ tr' = [tr EXCEPT ![p] = advance(logged(@, "clear", tr[p].ir, NULL))]
    /\ UNCHANGED <<interrupt_number, handlers_, hw, fatal, last, latest,
                   args, result, mu>>

\* handler = handlers_[index_for(pio, sm)];
T_lookup(p) ==
    LET idx == index_for(p, tr[p].sm)
    IN  /\ ~fatal
        /\ at(p, "lookup")
        /\ tr' = [tr EXCEPT ![p] =
                     advance(logged([@ EXCEPT !.handler = handlers_[idx]],
                                    "read", idx, handlers_[idx]))]
        /\ UNCHANGED <<interrupt_number, handlers_, irq, hw, fatal, last, latest,
                       args, result, mu>>

\* if (handler != nullptr) (*handler)();
T_invoke(p) ==
    LET idx == index_for(p, tr[p].sm)
        calls == invocations(idx, tr[p].handler)
    IN  /\ ~fatal
        /\ at(p, "invoke")
        /\ tr' = [tr EXCEPT ![p] =
                     advance(IF calls = <<>> THEN @
                             ELSE logged(@, "invoke", calls[1].slot,
                                         calls[1].handler))]
        /\ UNCHANGED <<interrupt_number, handlers_, irq, hw, fatal, last, latest,
                       args, result, mu>>

\* the flag words and the tables the step-by-step executions start from;
\* no state machine raises a flag while they run
StepWords == 0 .. MaxStepWord

StepTables == {[i \in Slots |-> t[i \div 4]] : t \in [PIOs -> {NULL, "A"}]}

InitSteps ==
    /\ interrupt_number \in 0 .. 3
    /\ handlers_ \in StepTables
    /\ irq \in [PIOs -> StepWords]
    /\ inte = [p \in PIOs |-> [c \in 0 .. 1 |-> {}]]
    /\ shared = [v \in Vectors |-> <<>>]
    /\ nvic = {}
    /\ fatal = FALSE
    /\ last = NoCall
    /\ latest = handlers_
    /\ args = NoArgs
    /\ result = NoResult
    /\ tr = [p \in PIOs |-> IdleContext]
    /\ mu = NoMutator

\* the trampolines of the blocks, interleaved statement by statement: a
\* trampoline may be entered while the other block's is part-way through
NextSteps ==
    \E p \in PIOs :
        \/ T_enter(p)
        \/ T_check(p)
        \/ T_assert(p)
        \/ T_resolve(p)
        \/ T_clear(p)
        \/ T_lookup(p)
        \/ T_invoke(p)

SpecSteps == InitSteps /\ [][NextSteps]_vars

---------------------------------------------------------------------------
(* register_handler statement by statement, with the trampolines *)

\* H old = handlers_[idx];  the handler type H is a pointer: one load
M_read(pio, sm, handler, set) ==
    LET idx == index_for(pio, sm)
    IN  /\ ~fatal
        /\ mu.pc = "none"
        /\ mu' = [pc |-> "read", pio |-> pio, sm |-> sm, handler |-> handler,
                  set |-> set, old |-> handlers_[idx], ret |-> FALSE]
        /\ UNCHANGED <<interrupt_number, handlers_, irq, hw, fatal, last, latest,
                       args, result, tr>>

\* handlers_[idx] = set ? handler : nullptr;  one store
\* return set ? old == nullptr : true;
M_write ==
    LET idx == index_for(mu.pio, mu.sm)
    IN  /\ ~fatal
        /\ mu.pc = "read"
        /\ handlers_' = [handlers_ EXCEPT ![idx] = stored_value(mu.handler, mu.set)]
        /\ latest' = [latest EXCEPT ![mu.pio * 4 + mu.sm] =
                         IF mu.set THEN mu.handler ELSE NULL]
        /\ mu' = [mu EXCEPT !.pc = "done", !.ret = returned_value(mu.old, mu.set)]
        /\ UNCHANGED <<interrupt_number, irq, hw, fatal, last, args, result, tr>>

\* one block has flags raised, the other none
RaceWords == {[p \in PIOs |-> IF p = q THEN w ELSE 0] :
                 q \in PIOs, w \in 1 .. MaxStepWord}

InitRace ==
    /\ interrupt_number \in 0 .. 3
    /\ handlers_ \in StepTables
    /\ irq \in RaceWords
    /\ inte = [p \in PIOs |-> [c \in 0 .. 1 |-> {}]]
    /\ shared = [v \in Vectors |-> <<>>]
    /\ nvic = {}
    /\ fatal = FALSE
    /\ last = NoCall
    /\ latest = handlers_
    /\ args = NoArgs
    /\ result = NoResult
    /\ tr = [p \in PIOs |-> IdleContext]
    /\ mu = NoMutator

\* one bind of handler B or one unbind, with trampoline executions entered
\* before it, between its read and its write, and after it
NextRace ==
    \/ \E p \in PIOs, s \in SMs : M_read(p, s, "B", TRUE)
    \/ \E p \in PIOs, s \in SMs : M_read(p, s, "B", FALSE)
    \/ M_write
    \/ NextSteps

SpecRace == InitRace /\ [][NextRace]_vars

---------------------------------------------------------------------------
(* The vector, firing for as long as a flag is raised *)

\* the sources of flags 0..3 of block p are enabled on a line and the line's
\* vector is unmasked: the vector is pending while one of the flags is
\* raised, and the interrupt controller calls interrupt_handler_PIOp
VectorFires(p) ==
    /\ ~fatal
    /\ last.op # "vector"
    /\ BitAnd(irq[p], 15) # 0
    /\ last' = [NoCall EXCEPT !.op = "vector", !.pio = p]
    /\ UNCHANGED <<interrupt_number, handlers_, irq, fatal, hw, latest, aux>>

\* the trampoline the vector called runs to its return
Run(p) ==
    /\ last.op = "vector"
    /\ last.pio = p
    /\ interrupt_handler(p)

InitStorm ==
    /\ interrupt_number \in 0 .. 3
    /\ handlers_ \in StepTables
    /\ irq \in [PIOs -> 0 .. MaxStormWord]
    /\ inte = [p \in PIOs |-> [c \in 0 .. 1 |-> {}]]
    /\ shared = [v \in Vectors |-> <<>>]
    /\ nvic = {}
    /\ fatal = FALSE
    /\ last = NoCall
    /\ latest = handlers_
    /\ args = NoArgs
    /\ result = NoResult
    /\ tr = [p \in PIOs |-> IdleContext]
    /\ mu = NoMutator

NextStorm == \E p \in PIOs : VectorFires(p) \/ Run(p)

\* no state machine raises a flag; a pending vector is taken, and a
\* trampoline that was called runs
SpecStorm ==
    /\ InitStorm
    /\ [][NextStorm]_vars
    /\ \A p \in PIOs : WF_vars(VectorFires(p)) /\ WF_vars(Run(p))

---------------------------------------------------------------------------
\* The free functions on their own: the arguments are drawn at the start,
\* ir or irq_val as args.a, and sm or ir as args.b
InitArith ==
    /\ interrupt_number = 0
    /\ handlers_ = [i \in Slots |-> NULL]
    /\ irq = [p \in PIOs |-> 0]
    /\ inte = [p \in PIOs |-> [c \in 0 .. 1 |-> {}]]
    /\ shared = [v \in Vectors |-> <<>>]
    /\ nvic = {}
    /\ fatal = FALSE
    /\ last = NoCall
    /\ latest = [i \in Slots |-> NULL]
    /\ args \in [a : 0 .. MaxWord, b : SMs]
    /\ result = NoResult
    /\ tr = [p \in PIOs |-> IdleContext]
    /\ mu = NoMutator

\* a call relative_interrupt(args.a, args.b)
call_relative_interrupt ==
    /\ ~fatal
    /\ result.op = "none"
    /\ result' = [op |-> "relative_interrupt", returned |-> TRUE,
                  val |-> relative_interrupt(args.a, args.b)]
    /\ UNCHANGED <<interrupt_number, handlers_, irq, hw, fatal, last, latest, args, tr, mu>>

\* a call sm_from_interrupt(args.a, args.b): the assert aborts the program
\* when the loop ran to 4, and nothing is returned
call_sm_from_interrupt ==
    LET i == sm_from_interrupt(args.a, args.b)
    IN  /\ ~fatal
        /\ result.op = "none"
        /\ result' = [op |-> "sm_from_interrupt", returned |-> sm_assert_ok(i),
                      val |-> IF sm_assert_ok(i) THEN i ELSE 0]
        /\ fatal' = ~sm_assert_ok(i)
        /\ UNCHANGED <<interrupt_number, handlers_, irq, hw, last, latest, args, tr, mu>>

NextArith == call_relative_interrupt \/ call_sm_from_interrupt

SpecArith == InitArith /\ [][NextArith]_vars

---------------------------------------------------------------------------
(* Vocabulary of the properties, stated without the operators above *)

\* the flags 0..3 raised in a word
LowFlags(w) == {f \in SMs : (w \div (2 ^ f)) % 2 = 1}

\* the lowest of them
LowestFlag(w) == CHOOSE f \in LowFlags(w) : \A g \in LowFlags(w) : f <= g

\* the flag of state machine sm under this table's interrupt number
FlagOf(sm) == (interrupt_number + sm) % 4

\* what invoking exactly the handler held by a slot looks like
InvokesSlot(table, slot) ==
    IF table[slot] = NULL THEN <<>>
    ELSE <<[slot |-> slot, handler |-> table[slot]]>>

\* how often a flag occurs in a sequence of clears
Occurrences(seq, f) == Cardinality({k \in 1 .. Len(seq) : seq[k] = f})

Dispatched == last.op = "dispatch"

---------------------------------------------------------------------------
(* C1..C10 *)

\* C1: when the only raised flag of a block is the flag of state machine sm
\* (flag (interrupt_number + sm) mod 4, the one register_interrupt enables
\* for it), the trampoline of that block invokes the handler bound at
\* (block, sm) and no handler of any other slot.
C1_AttributesToFiringStateMachine ==
    \A sm \in SMs :
        (Dispatched /\ last.word = 2 ^ FlagOf(sm))
            => /\ ~fatal
               /\ last.invoked = InvokesSlot(handlers_, last.pio * 4 + sm)

\* C2: when the trampoline runs with exactly one flag raised among flags
\* 0..3, that flag is clear on return and was cleared exactly once, with or
\* without a bound handler.
C2_RaisedFlagClearedOnce ==
    (Dispatched /\ Cardinality(LowFlags(last.word)) = 1)
        => LET f == LowestFlag(last.word)
           IN  /\ f \notin LowFlags(irq[last.pio])
               /\ Occurrences(last.cleared, f) = 1

\* C3: when the trampoline runs with a raised flag among flags 0..3 and the
\* slot of (block, lowest raised flag) is empty, it clears exactly the flag
\* (interrupt_number + sm) mod 4 of that block, changes no other flag of any
\* block, invokes no handler and does not abort.
C3_EmptySlotClearsOneFlag ==
    [][ ( /\ last'.op = "dispatch"
          /\ LowFlags(irq[last'.pio]) # {}
          /\ handlers_[last'.pio * 4 + LowestFlag(irq[last'.pio])] = NULL )
        => LET p == last'.pio
               f == FlagOf(LowestFlag(irq[p]))
           IN  /\ ~fatal'
               /\ last'.cleared = <<f>>
               /\ last'.invoked = <<>>
               /\ LowFlags(irq'[p]) = LowFlags(irq[p]) \ {f}
               /\ irq'[p] \div 16 = irq[p] \div 16
               /\ \A q \in PIOs \ {p} : irq'[q] = irq[q] ]_vars

\* a dispatch found a raised flag, an empty slot for it and another slot
\* bound, cleared one flag and invoked nothing
C3_Witness ==
    /\ Dispatched /\ last.resolved /\ ~fatal
    /\ LowFlags(last.word) # {}
    /\ handlers_[last.pio * 4 + LowestFlag(last.word)] = NULL
    /\ Bound # {}
    /\ Len(last.cleared) = 1
    /\ last.invoked = <<>>

\* C4: a dispatch that resolves state machine sm of a block invokes the
\* handler given by the most recent bind on (block, sm) when no unbind
\* followed it, and nothing when the slot was never bound or was unbound
\* last; after bind A then bind B, B is invoked and A is not.
C4_MostRecentBindIsInvoked ==
    (Dispatched /\ last.resolved)
        => last.invoked = InvokesSlot(latest, last.pio * 4 + last.sm)

\* a dispatch invoked handler B of a slot
C4_Witness ==
    /\ Dispatched /\ last.resolved
    /\ Len(last.invoked) = 1
    /\ last.invoked[1].handler = "B"
    /\ latest[last.pio * 4 + last.sm] = "B"

\* C5: bind returns true exactly when the slot was empty immediately before
\* the call, and unbind returns true whatever the slot held.
C5_BindUnbindResult ==
    [][ /\ last'.op = "bind"
            => (last'.ret <=> handlers_[last'.pio * 4 + last'.sm] = NULL)
        /\ last'.op = "unbind" => last'.ret ]_vars

\* a bind on an occupied slot returned false
C5_Witness ==
    /\ last.op = "bind"
    /\ ~last.ret
    /\ handlers_[last.pio * 4 + last.sm] = last.handler

\* C6: with interrupt number 0, a fire of state machine s raises bit s, and
\* the trampoline of block i, when s is the lowest raised flag, resolves s,
\* clears flag s and invokes the handler bound at slot i * 4 + s.
C6_InterruptNumberZeroEndToEnd ==
    interrupt_number = 0
        => /\ last.op = "fire" => last.sm \in LowFlags(irq[last.pio])
           /\ (Dispatched /\ LowFlags(last.word) # {})
                => LET s == LowestFlag(last.word)
                   IN  /\ ~fatal
                       /\ last.resolved
                       /\ last.sm = s
                       /\ last.cleared = <<s>>
                       /\ s \notin LowFlags(irq[last.pio])
                       /\ last.invoked = InvokesSlot(handlers_, last.pio * 4 + s)

\* block 0, state machine 2, interrupt number 0: flag 2 was raised alone,
\* was cleared, and the handler at slot 2 was invoked
C6_Witness ==
    /\ interrupt_number = 0
    /\ Dispatched
    /\ last.pio = 0
    /\ last.word = 4
    /\ last.sm = 2
    /\ last.cleared = <<2>>
    /\ last.invoked = <<[slot |-> 2, handler |-> "A"]>>

\* C7: a trampoline run on an all-zero flag word returns at once: nothing
\* is resolved, cleared or invoked, and the program does not abort.
C7_ZeroWordReturns ==
    [][ (last'.op = "dispatch" /\ irq[last'.pio] = 0)
        => /\ ~fatal'
           /\ ~last'.resolved
           /\ last'.cleared = <<>>
           /\ last'.invoked = <<>>
           /\ irq' = irq ]_vars

\* a trampoline ran on a zero word while a handler of its block was bound
C7_Witness ==
    /\ Dispatched /\ last.word = 0 /\ ~fatal
    /\ \E sm \in SMs : handlers_[last.pio * 4 + sm] # NULL

\* C8: a trampoline run on a word with none of the flags 0..3 raised,
\* whatever the flags above them, ends without aborting, clearing or
\* invoking.
C8_NoLowFlagIsNothingToDispatch ==
    (Dispatched /\ LowFlags(last.word) = {})
        => /\ ~fatal
           /\ last.cleared = <<>>
           /\ last.invoked = <<>>

\* C9 as stated: a word with more than one of the flags 0..3 raised aborts
\* the program and no handler is invoked.
C9_MultipleFlagsAbort ==
    (Dispatched /\ Cardinality(LowFlags(last.word)) > 1)
        => /\ fatal
           /\ last.invoked = <<>>

\* C9, amended: a word with more than one of the flags 0..3 raised does not
\* abort: the trampoline resolves the lowest raised flag as the state
\* machine, clears the flag (interrupt_number + sm) mod 4 and invokes the
\* handler bound at (block, sm), if any.
C9_MultipleFlagsServeLowest ==
    (Dispatched /\ Cardinality(LowFlags(last.word)) > 1)
        => LET s == LowestFlag(last.word)
           IN  /\ ~fatal
               /\ last.resolved
               /\ last.sm = s
               /\ last.cleared = <<FlagOf(s)>>
               /\ last.invoked = InvokesSlot(handlers_, last.pio * 4 + s)

\* a trampoline ran on a word with two of the flags 0..3 raised
C9_Witness ==
    /\ Dispatched
    /\ Cardinality(LowFlags(last.word)) = 2
    /\ last.resolved
    /\ last.sm = LowestFlag(last.word)

\* C10: register_interrupt with a line other than 0 or 1 aborts before any
\* hardware write: no source enable, no vector installation, no unmask.
C10_BadLineAbortsBeforeWrites ==
    [][ (last'.op = "wire" /\ last'.chan \notin {0, 1})
        => /\ fatal'
           /\ inte' = inte
           /\ shared' = shared
           /\ nvic' = nvic ]_vars

\* a call with line 2 aborted after an earlier valid call had written
C10_Witness ==
    /\ fatal
    /\ last.op = "wire"
    /\ last.chan = 2
    /\ Installed = 1

---------------------------------------------------------------------------
(* C11..C20 *)

\* the source number of state machine sm's flag, and the vector of a line
SourceOf(sm) == 8 + FlagOf(sm)

VectorOf(pio, chan) == 7 + 2 * pio + chan

Wired == last.op = "wire" /\ last.chan \in {0, 1}

\* C11: register_interrupt with line 0 or 1 enables exactly the source of
\* flag (interrupt_number + sm) mod 4 on exactly that line of that block
\* (the other line and the other blocks keep their enables), and the call
\* unmasks the vector of (block, line) exactly when enable is true.
C11_WireEnablesOneSource ==
    [][ (last'.op = "wire" /\ last'.chan \in {0, 1})
        => LET p == last'.pio
               c == last'.chan
           IN  /\ ~fatal'
               /\ inte'[p][c] = inte[p][c] \cup {SourceOf(last'.sm)}
               /\ inte'[p][1 - c] = inte[p][1 - c]
               /\ \A q \in PIOs \ {p} : inte'[q] = inte[q]
               /\ nvic' = IF last'.en THEN nvic \cup {VectorOf(p, c)} ELSE nvic ]_vars

\* block 1 was wired on line 1 with enable false: the source is enabled on
\* that line only and the vector is still masked
C11_Witness ==
    /\ Wired /\ ~fatal
    /\ last.pio = 1 /\ last.chan = 1 /\ ~last.en
    /\ inte[1][1] = {SourceOf(last.sm)}
    /\ inte[1][0] = {}
    /\ VectorOf(1, 1) \notin nvic

\* C12 as stated: after register_interrupt with enable false the source of
\* (block, sm) is not enabled on that line.
C12_WireFalseDisablesSource ==
    (Wired /\ ~last.en /\ ~fatal)
        => SourceOf(last.sm) \notin inte[last.pio][last.chan]

\* C12, amended: register_interrupt with enable false does not disable the
\* source: after the call the source of (block, sm) is enabled on that
\* line, and the call leaves every vector's mask as it was.
C12_WireFalseStillEnablesSource ==
    [][ (last'.op = "wire" /\ last'.chan \in {0, 1} /\ ~last'.en)
        => /\ SourceOf(last'.sm) \in inte'[last'.pio][last'.chan]
           /\ nvic' = nvic ]_vars

\* a call with enable false followed one with enable true for the same
\* state machine and line: the source is still enabled, the vector unmasked
C12_Witness ==
    /\ Wired /\ ~last.en /\ ~fatal
    /\ SourceOf(last.sm) \in inte[last.pio][last.chan]
    /\ VectorOf(last.pio, last.chan) \in nvic

C14_RelativeInterruptWrapsLowBits ==
    result.op = "relative_interrupt"
        => /\ result.returned
           /\ result.val % 4 = ((args.a % 4) + args.b) % 4
           /\ result.val \div 4 = args.a \div 4
           /\ args.a \in 0 .. 3 => result.val \in 0 .. 3

\* relative_interrupt(7, 3) = 6: the low bits wrapped from 3 to 2 and bit 2
\* was kept
C14_Witness ==
    /\ result.op = "relative_interrupt"
    /\ args.a = 7 /\ args.b = 3
    /\ result.val = 6

C16_SlotChangesOnlyByOwnBind ==
    [][ /\ handlers_' # handlers_
              => /\ last'.op \in {"bind", "unbind"}
                 /\ \A i \in Slots \ {last'.pio * 4 + last'.sm} :
                       handlers_'[i] = handlers_[i]
        /\ last'.op \in {"bind", "unbind"}
              => /\ DOMAIN handlers_' = 0 .. (NUM_PIOS * 4 - 1)
                 /\ index_for(last'.pio, last'.sm) = last'.pio * 4 + last'.sm
                 /\ index_for(last'.pio, last'.sm) \in 0 .. (NUM_PIOS * 4 - 1)
                 /\ \A q \in PIOs, t \in SMs :
                       index_for(last'.pio, last'.sm) = index_for(q, t)
                           => (last'.pio = q /\ last'.sm = t) ]_vars

\* register_interrupt was called for a pair whose slot is bound, and the
\* slot still holds the handler of the last bind
C16_Witness ==
    /\ Wired /\ ~fatal
    /\ handlers_[last.pio * 4 + last.sm] = "B"
    /\ latest[last.pio * 4 + last.sm] = "B"

\* the positions of an event in a log, and a completed execution
Events(log, ev) == {k \in 1 .. Len(log) : log[k].ev = ev}

Completed(p) == tr[p].pc = 0 /\ tr[p].runs > 0 /\ ~fatal

\* C17: in every execution of the trampoline on a word with a raised flag
\* among flags 0..3, the flag clear comes before the read of the slot and
\* before the invocation of the handler; the execution makes at most one
\* clear and at most one invocation, and exactly one clear once it has
\* returned.
C17_ClearBeforeLookupAndInvoke ==
    \A p \in PIOs :
        (tr[p].runs > 0 /\ LowFlags(tr[p].word) # {})
            => LET log == tr[p].log
               IN  /\ Cardinality(Events(log, "clear")) <= 1
                   /\ Cardinality(Events(log, "invoke")) <= 1
                   /\ \A k \in Events(log, "read") \cup Events(log, "invoke") :
                         \E c \in Events(log, "clear") : c < k
                   /\ \A k \in Events(log, "invoke") :
                         \E r \in Events(log, "read") : r < k
                   /\ Completed(p) => Cardinality(Events(log, "clear")) = 1

\* an execution cleared a flag, then read its slot, then invoked handler A,
\* while the other block's trampoline was part-way through its own
C17_Witness ==
    \E p \in PIOs :
        /\ Completed(p)
        /\ Len(tr[p].log) = 3
        /\ tr[p].log[1].ev = "clear"
        /\ tr[p].log[2].ev = "read"
        /\ tr[p].log[3] = [ev |-> "invoke", n |-> tr[p].log[2].n, h |-> "A"]
        /\ \E q \in PIOs \ {p} : tr[q].pc > 1

\* what one execution on word w does when nothing else runs: nothing on a
\* zero word; otherwise it clears the flag of the lowest raised flag's state
\* machine, reads that state machine's slot and invokes what it read
AloneLog(p, w, table) ==
    IF w = 0 THEN <<>>
    ELSE LET s == LowestFlag(w)
             h == table[p * 4 + s]
         IN  <<[ev |-> "clear", n |-> FlagOf(s), h |-> NULL],
               [ev |-> "read", n |-> p * 4 + s, h |-> h]>>
             \o (IF h = NULL THEN <<>>
                 ELSE <<[ev |-> "invoke", n |-> p * 4 + s, h |-> h]>>)

\* C19: the trampoline of block p reads and clears only flags of block p
\* and reads only the slots p*4 .. p*4+3: a step of it changes no flag of
\* another block, no slot, and nothing of another trampoline, and the flags
\* of block p change in no step but its own.  So however the other block's
\* trampoline is interleaved with it, the flags it has cleared and the
\* handlers it has invoked when it returns are those of an execution that
\* runs alone.
C19_TrampolinesIndependent ==
    [][ \A p \in PIOs :
          /\ irq'[p] # irq[p] => tr'[p] # tr[p]
          /\ tr'[p] # tr[p]
                => /\ handlers_' = handlers_
                   /\ \A q \in PIOs \ {p} : irq'[q] = irq[q] /\ tr'[q] = tr[q]
          /\ \A k \in 1 .. Len(tr'[p].log) :
                tr'[p].log[k].ev \in {"read", "invoke"}
                    => tr'[p].log[k].n \in (p * 4) .. (p * 4 + 3)
          /\ (tr'[p].pc = 0 /\ tr'[p].runs > 0 /\ ~fatal'
                /\ (tr'[p].word = 0 \/ LowFlags(tr'[p].word) # {}))
                => /\ tr'[p].log = AloneLog(p, tr'[p].word, handlers_')
                   /\ \A k \in 1 .. Len(tr'[p].log) :
                         tr'[p].log[k].ev = "clear"
                             => irq'[p] = pio_interrupt_clear(tr'[p].word,
                                                             tr'[p].log[k].n) ]_vars

\* both trampolines are part-way through, each after its clear and before
\* its invocation, block 1 with bound slots and block 0 without
C19_Witness ==
    /\ \A p \in PIOs : tr[p].pc > 0 /\ Events(tr[p].log, "clear") # {}
    /\ tr[0].handler = NULL
    /\ tr[1].handler = "A"
    /\ Events(tr[1].log, "read") # {}

\* the slot a register_handler call is about, and the slot's content after
\* the call
MutatedSlot == mu.pio * 4 + mu.sm

AfterValue == IF mu.set THEN mu.handler ELSE NULL

\* C20: a trampoline execution entered between the read and the write of a
\* bind or unbind reads a slot once; when the slot is the mutator's, the
\* value read is the one held before the mutation or the one held after
\* it; it invokes the value it read, and nothing when that value is empty.
\* The mutator returns true for unbind and, for bind, true exactly when the
\* slot was empty before the bind.
C20_PreemptedMutation ==
    [][ /\ \A p \in PIOs :
              tr'[p].during = "read"
                  => LET log == tr'[p].log
                     IN  /\ Cardinality(Events(log, "read")) <= 1
                         /\ \A k \in Events(log, "read") :
                               log[k].n = MutatedSlot'
                                   => log[k].h \in {mu'.old, AfterValue'}
                         /\ \A k \in Events(log, "invoke") :
                               /\ log[k].h # NULL
                               /\ \E r \in Events(log, "read") :
                                     r < k /\ log[r].h = log[k].h
                                           /\ log[r].n = log[k].n
                         /\ \A r \in Events(log, "read") :
                               (tr'[p].pc = 0 /\ log[r].h # NULL)
                                   => Events(log, "invoke") # {}
        /\ (mu.pc = "read" /\ mu'.pc = "done")
              => /\ mu'.set => (mu'.ret <=> handlers_[MutatedSlot] = NULL)
                 /\ ~mu'.set => mu'.ret
                 /\ mu'.old = handlers_[MutatedSlot] ]_vars

\* a trampoline entered between the read and the write of a bind of B over
\* A, read the slot after the write and invoked B; the bind returned false
C20_Witness ==
    /\ mu.pc = "done" /\ mu.set /\ mu.old = "A" /\ ~mu.ret
    /\ tr[mu.pio].during = "read"
    /\ tr[mu.pio].pc = 0
    /\ \E k \in Events(tr[mu.pio].log, "invoke") :
          tr[mu.pio].log[k] = [ev |-> "invoke", n |-> MutatedSlot, h |-> "B"]

\* the same, the slot read before the write: an unbind was preempted and
\* the trampoline invoked the handler the unbind then removed
C20_WitnessBefore ==
    /\ mu.pc = "done" /\ ~mu.set /\ mu.old = "A" /\ mu.ret
    /\ tr[mu.pio].during = "read"
    /\ \E k \in Events(tr[mu.pio].log, "invoke") :
          tr[mu.pio].log[k] = [ev |-> "invoke", n |-> MutatedSlot, h |-> "A"]
    /\ handlers_[MutatedSlot] = NULL

\* C18: for every interrupt number 0..3, when the vector keeps calling the
\* trampoline while a flag among flags 0..3 is raised and no new flag is
\* raised, eventually no flag among flags 0..3 of any block is raised (and
\* the vector is no longer pending), with or without bound handlers.
C18_ReFiringEnds ==
    <>(\A p \in PIOs : LowFlags(irq[p]) = {})

=============================================================================
